---------------------------- MODULE Spec2Model ----------------------------
(***************************************************************************)
(* A model of notebook_simplification:                                     *)
(*   - gan_utils.GanUtils, the GAN batch assembler (specification Spec);   *)
(*   - nbutils.sample / nbutils.__sample_by_label, the class rebalancing   *)
(*     helper (specification SpecSample).                                  *)
(*                                                                         *)
(* Arrays are sequences: a batch of samples is a sequence of rows, a row   *)
(* is a sequence of integers, a label vector is a sequence of 0s and 1s    *)
(* (0.0 and 1.0).  A call's result is an outcome record: it either         *)
(* returned (status "ok", with x and y) or raised (status "error", with    *)
(* the exception's name and no value).  Random draws are nondeterministic: *)
(* a method is the SET of the outcomes it can produce.                     *)
(***************************************************************************)
EXTENDS Integers, Sequences, FiniteSets

VARIABLES
    constructed,     \* has GanUtils.__init__ returned an instance
    self,            \* the instance's attributes
    atConstruction,  \* history: the attributes as __init__ left them
    last,            \* the last call on the instance and its outcome
    sx, sy, target,  \* the arguments of nbutils.sample
    sres             \* the outcome of nbutils.sample

vars == <<constructed, self, atConstruction, last, sx, sy, target, sres>>

ganVars    == <<constructed, self, atConstruction, last>>
sampleVars == <<sx, sy, target, sres>>

---------------------------------------------------------------------------
(* Bounds of the model *)

MaxLatent == 1    \* latent_length ranges over -1..MaxLatent
MaxBatch  == 3    \* batch_size ranges over -1..MaxBatch
MaxData   == 2    \* the dataset holds 0..MaxData rows
MaxN      == 2    \* requested sample counts range over -1..MaxN
MaxItems  == 3    \* sample(): x and y hold 0..MaxItems entries
MaxTarget == 2    \* sample(): the target map holds 0..MaxTarget labels

Noise == {0, 1}   \* the values a standard normal draw is abstracted to

LatentLengths == -1 .. MaxLatent
BatchSizes    == -1 .. MaxBatch
Counts        == -1 .. MaxN

\* The k-th real sample (a one-pixel row 10, 20, 30, ...).
Row(k) == <<10 * k>>
Datasets == { [i \in 1..k |-> Row(i)] : k \in 0 .. MaxData }

\* The generator models a GanUtils can be given, by what predict does.
Generators == {"identity", "truncating", "padding", "raising"}

None == <<>>                       \* an omitted optional argument
Some(n) == <<n>>                   \* a given optional argument

Range(s) == { s[i] : i \in 1 .. Len(s) }
Const(k, v) == [i \in 1 .. k |-> v]

---------------------------------------------------------------------------
(* Outcomes *)

NoTrace == [calls |-> 0, genIn |-> <<>>, genOut |-> <<>>, genRaised |-> FALSE,
            draws |-> 0, idx |-> <<>>, n_fake |-> 0, n_real |-> 0]

\* The call returned (x, y), leaving the instance as obj.
Return(obj, x, y, tr) ==
    [status |-> "ok", err |-> "", x |-> x, y |-> y, self |-> obj, tr |-> tr]

\* The call raised err: nothing is returned.
Raise(obj, err, tr) ==
    [status |-> "error", err |-> err, x |-> <<>>, y |-> <<>>, self |-> obj,
     tr |-> tr]

---------------------------------------------------------------------------
(* numpy *)

\* np.random.randn(n, d): ValueError on a negative dimension, otherwise any
\* n x d array.
randn(n, d) ==
    IF n < 0 \/ d < 0
    THEN {[status |-> "error", err |-> "ValueError", val |-> <<>>]}
    ELSE {[status |-> "ok", err |-> "", val |-> m] :
            m \in [1 .. n -> [1 .. d -> Noise]]}

\* np.random.choice(a, size) for an integer a, with replacement: ValueError on
\* a negative size, or on a <= 0 unless no samples are taken; otherwise any
\* size indexes of 0 .. a-1.
choice(a, size) ==
    IF size < 0 \/ (a <= 0 /\ size # 0)
    THEN {[status |-> "error", err |-> "ValueError", val |-> <<>>]}
    ELSE {[status |-> "ok", err |-> "", val |-> ix] :
            ix \in [1 .. size -> 0 .. a - 1]}

ones(k)  == Const(k, 1)
zeros(k) == Const(k, 0)

\* int(b / 2): true division, then truncation toward zero.
IntHalf(b) == IF b >= 0 THEN b \div 2 ELSE -((-b) \div 2)

---------------------------------------------------------------------------
(* The generator collaborator *)

\* generator.predict(latent_examples), by the kind of generator.
predict(generator, latent_examples) ==
    CASE generator = "identity" ->
            [status |-> "ok", err |-> "", val |-> latent_examples]
      [] generator = "truncating" ->
            [status |-> "ok", err |-> "",
             val |-> SubSeq(latent_examples, 1, Len(latent_examples) - 1)]
      [] generator = "padding" ->
            [status |-> "ok", err |-> "",
             val |-> latent_examples \o
                     <<IF Len(latent_examples) = 0 THEN <<>>
                       ELSE latent_examples[1]>>]
      [] OTHER ->
            [status |-> "error", err |-> "GenerationError", val |-> <<>>]

\* Does the generator return as many samples as it is given latent vectors?
PreservesCount(generator) == generator = "identity"

---------------------------------------------------------------------------
(* gan_utils.GanUtils *)

\* GanUtils.__init__: stores its arguments; it validates nothing and never
\* raises.
GanUtils_init(latent_length, batch_size, dataset, generator) ==
    [status |-> "ok", err |-> "",
     self |-> [latent_length |-> latent_length,
               batch_size    |-> batch_size,
               dataset       |-> dataset,
               dataset_size  |-> Len(dataset),
               generator     |-> generator]]

\* GanUtils.get_latent_examples(n)
get_latent_examples(obj, n) ==
    { IF r.status = "error"
      THEN Raise(obj, r.err, NoTrace)
      ELSE Return(obj, r.val, <<>>, NoTrace) :
        r \in randn(n, obj.latent_length) }

\* As get_latent_dataset, with `if not n:` for `if n is None:`.
get_latent_dataset_falsy(obj, n) ==
    LET m == IF n = None \/ n = Some(0) THEN obj.batch_size ELSE n[1]
    IN  { IF le.status = "error"
          THEN le
          ELSE Return(le.self, le.x, ones(m), le.tr) :
            le \in get_latent_examples(obj, m) }

\* GanUtils.get_latent_dataset(n=None)
get_latent_dataset(obj, n) ==
    LET m == IF n = None THEN obj.batch_size ELSE n[1]
    IN  { IF le.status = "error"
          THEN le
          ELSE Return(le.self, le.x, ones(m), le.tr) :
            le \in get_latent_examples(obj, m) }

\* As get_fake_data, labelling by the requested count n.
get_fake_data_by_n(obj, n) ==
    { IF le.status = "error"
      THEN le
      ELSE LET g  == predict(le.self.generator, le.x)
               tr == [le.tr EXCEPT !.calls = @ + 1, !.genIn = le.x,
                                   !.genOut = g.val,
                                   !.genRaised = (g.status = "error")]
           IN  IF g.status = "error"
               THEN Raise(le.self, g.err, tr)
               ELSE Return(le.self, g.val, zeros(n), tr) :
        le \in get_latent_examples(obj, n) }

\* GanUtils.get_fake_data(n)
get_fake_data(obj, n) ==
    { IF le.status = "error"
      THEN le
      ELSE LET g  == predict(le.self.generator, le.x)
               tr == [le.tr EXCEPT !.calls = @ + 1, !.genIn = le.x,
                                   !.genOut = g.val,
                                   !.genRaised = (g.status = "error")]
           IN  IF g.status = "error"
               THEN Raise(le.self, g.err, tr)
               ELSE Return(le.self, g.val, zeros(Len(g.val)), tr) :
        le \in get_latent_examples(obj, n) }

\* As get_sampled_data, with `self.dataset[:n]` for the random draw.
get_sampled_data_head(obj, n) ==
    IF n < 0
    THEN {Raise(obj, "ValueError", NoTrace)}
    ELSE LET m == IF n < Len(obj.dataset) THEN n ELSE Len(obj.dataset)
             x == SubSeq(obj.dataset, 1, m)
         IN  {Return(obj, x, ones(Len(x)), NoTrace)}

\* As get_sampled_data, keeping the sample in self.dataset.
get_sampled_data_keep(obj, n) ==
    { LET tr == [NoTrace EXCEPT !.draws = 1, !.idx = c.val]
      IN  IF c.status = "error"
          THEN Raise(obj, c.err, tr)
          ELSE LET x == [k \in 1 .. Len(c.val) |-> obj.dataset[c.val[k] + 1]]
               IN  Return([obj EXCEPT !.dataset = x], x, ones(Len(x)), tr) :
        c \in choice(obj.dataset_size, n) }

\* GanUtils.get_sampled_data(n)
get_sampled_data(obj, n) ==
    { LET tr == [NoTrace EXCEPT !.draws = 1, !.idx = c.val]
      IN  IF c.status = "error"
          THEN Raise(obj, c.err, tr)
          ELSE LET x == [k \in 1 .. Len(c.val) |-> obj.dataset[c.val[k] + 1]]
               IN  Return(obj, x, ones(Len(x)), tr) :
        c \in choice(obj.dataset_size, n) }

\* The trace of a combined call: the generator's part, then the draw's part.
Joined(ft, rt, n_fake, n_real) ==
    [ft EXCEPT !.draws = rt.draws, !.idx = rt.idx,
               !.n_fake = n_fake, !.n_real = n_real]

\* The outcomes of the rest of get_combined_dataset once get_fake_data has
\* returned f: the real segment is drawn and put first.
CombineWith(f, n_fake, n_real) ==
    { LET tr == Joined(f.tr, r.tr, n_fake, n_real)
      IN  IF r.status = "error"
          THEN Raise(r.self, r.err, tr)
          ELSE Return(r.self, r.x \o f.x, r.y \o f.y, tr) :
        r \in get_sampled_data(f.self, n_real) }

\* As get_combined_dataset, concatenating [x_fake, x_real].
get_combined_dataset_fake_first(obj, n_fake, n_real) ==
    UNION { IF f.status = "error"
            THEN {Raise(f.self, f.err, Joined(f.tr, NoTrace, n_fake, n_real))}
            ELSE { LET tr == Joined(f.tr, r.tr, n_fake, n_real)
                   IN  IF r.status = "error"
                       THEN Raise(r.self, r.err, tr)
                       ELSE Return(r.self, f.x \o r.x, f.y \o r.y, tr) :
                     r \in get_sampled_data(f.self, n_real) } :
              f \in get_fake_data(obj, n_fake) }

\* As get_combined_dataset, falling back to the real segment alone when
\* get_fake_data raises.
get_combined_dataset_fallback(obj, n_fake, n_real) ==
    UNION { CombineWith(f, n_fake, n_real) :
              f \in get_fake_data(obj, n_fake) }

\* GanUtils.get_combined_dataset(n_fake, n_real): the fake segment is
\* produced first; an exception there leaves the real segment undrawn.
get_combined_dataset(obj, n_fake, n_real) ==
    UNION { IF f.status = "error"
            THEN {Raise(f.self, f.err, Joined(f.tr, NoTrace, n_fake, n_real))}
            ELSE CombineWith(f, n_fake, n_real) :
              f \in get_fake_data(obj, n_fake) }

\* As get_equal_combined_dataset, giving the real segment the remainder.
get_equal_combined_dataset_rest(obj) ==
    LET n_fake == IntHalf(obj.batch_size)
        n_real == obj.batch_size - n_fake
    IN  get_combined_dataset(obj, n_fake, n_real)

\* GanUtils.get_equal_combined_dataset()
get_equal_combined_dataset(obj) ==
    LET n_fake == IntHalf(obj.batch_size)
        n_real == IntHalf(obj.batch_size)
    IN  get_combined_dataset(obj, n_fake, n_real)

---------------------------------------------------------------------------
(* The instance's life: one construction, then any calls, one at a time: *)
(* the caller receives a call's outcome before it makes the next call.     *)

NoSelf == [latent_length |-> 0, batch_size |-> 0, dataset |-> <<>>,
           dataset_size |-> 0, generator |-> "identity"]

NoCall == [op |-> "none", args |-> <<>>, status |-> "ok", err |-> "",
           x |-> <<>>, y |-> <<>>, tr |-> NoTrace]

NoSample == [status |-> "none", err |-> "", new_x |-> <<>>, new_y |-> <<>>,
             idx |-> <<>>]

InitGan ==
    /\ constructed = FALSE
    /\ self = NoSelf
    /\ atConstruction = NoSelf
    /\ last = NoCall

InitIdleSample ==
    /\ sx = <<>>
    /\ sy = <<>>
    /\ target = <<>>
    /\ sres = NoSample

Init == InitGan /\ InitIdleSample

\* The caller's GanUtils(latent_length, batch_size, dataset, generator).
Construct ==
    /\ ~constructed
    /\ \E l \in LatentLengths, b \in BatchSizes, d \in Datasets,
          g \in Generators :
         LET out == GanUtils_init(l, b, d, g)
         IN  /\ constructed' = (out.status = "ok")
             /\ self' = out.self
             /\ atConstruction' = out.self
             /\ last' = [NoCall EXCEPT !.op = "__init__",
                                       !.status = out.status,
                                       !.err = out.err]
    /\ UNCHANGED sampleVars

\* A call op(args) on the instance ended as out.
Called(op, args, out) ==
    /\ self' = out.self
    /\ last' = [op |-> op, args |-> args, status |-> out.status,
                err |-> out.err, x |-> out.x, y |-> out.y, tr |-> out.tr]
    /\ UNCHANGED <<constructed, atConstruction>>
    /\ UNCHANGED sampleVars

\* No call is in progress: the caller holds no outcome it has yet to take.
Idle == last.op \in {"none", "__init__"}

\* The synchronous return to the caller: it takes the batch, or the
\* exception, and may call again.
TakeOutcome ==
    /\ constructed
    /\ ~Idle
    /\ last' = NoCall
    /\ UNCHANGED <<constructed, self, atConstruction>>
    /\ UNCHANGED sampleVars

GetLatentExamples ==
    /\ constructed
    /\ Idle
    /\ \E n \in Counts :
         \E out \in get_latent_examples(self, n) :
            Called("get_latent_examples", <<n>>, out)

GetLatentDataset ==
    /\ constructed
    /\ Idle
    /\ \E n \in {None} \cup { Some(k) : k \in Counts } :
         \E out \in get_latent_dataset(self, n) :
            Called("get_latent_dataset", n, out)

GetFakeData ==
    /\ constructed
    /\ Idle
    /\ \E n \in Counts :
         \E out \in get_fake_data(self, n) :
            Called("get_fake_data", <<n>>, out)

GetSampledData ==
    /\ constructed
    /\ Idle
    /\ \E n \in Counts :
         \E out \in get_sampled_data(self, n) :
            Called("get_sampled_data", <<n>>, out)

GetCombinedDataset ==
    /\ constructed
    /\ Idle
    /\ \E n_fake \in Counts, n_real \in Counts :
         \E out \in get_combined_dataset(self, n_fake, n_real) :
            Called("get_combined_dataset", <<n_fake, n_real>>, out)

GetEqualCombinedDataset ==
    /\ constructed
    /\ Idle
    /\ \E out \in get_equal_combined_dataset(self) :
         Called("get_equal_combined_dataset", <<>>, out)

Next ==
    \/ Construct
    \/ GetLatentExamples
    \/ GetLatentDataset
    \/ GetFakeData
    \/ GetSampledData
    \/ GetCombinedDataset
    \/ GetEqualCombinedDataset
    \/ TakeOutcome

Spec == Init /\ [][Next]_vars

---------------------------------------------------------------------------
(* nbutils.sample *)

Items        == {7, 8}      \* the values an entry of x can have
YLabels      == {0, 1}      \* the labels that occur in y
TargetLabels == {0, 1, 2}   \* the labels a target map can name

\* Ratios num/den that binary floating point represents exactly.
Ratio(num, den) == [num |-> num, den |-> den]
Ratios == {Ratio(0, 1), Ratio(1, 2), Ratio(1, 1), Ratio(3, 2)}

\* The target dict as its items() in iteration order: distinct labels.
Targets ==
    { t \in UNION { [1 .. k -> [label : TargetLabels, ratio : Ratios]] :
                      k \in 0 .. MaxTarget } :
        \A i, j \in 1 .. Len(t) : t[i].label = t[j].label => i = j }

\* np.flatnonzero(y == label): the 0-based indexes, ascending.
RECURSIVE flatnonzero_eq(_, _, _)
flatnonzero_eq(y, label, k) ==
    IF k > Len(y) THEN <<>>
    ELSE (IF y[k] = label THEN <<k - 1>> ELSE <<>>)
         \o flatnonzero_eq(y, label, k + 1)

\* int(n * ratio) for ratio >= 0: the product, truncated.
IntTimes(n, ratio) == (n * ratio.num) \div ratio.den

\* np.random.choice(a, size, replace=False) for an array a: ValueError when
\* more samples are asked than a holds; otherwise any size entries of a at
\* distinct positions, in any order.
choice_without_replacement(a, size) ==
    IF size < 0 \/ size > Len(a)
    THEN {[status |-> "error", err |-> "ValueError", val |-> <<>>]}
    ELSE {[status |-> "ok", err |-> "", val |-> [k \in 1 .. size |-> a[p[k]]]] :
            p \in { q \in [1 .. size -> 1 .. Len(a)] :
                      \A i, j \in 1 .. size : q[i] = q[j] => i = j }}

\* np.random.choice(a, size) for an array a, with replacement.
choice_with_replacement(a, size) ==
    IF size < 0 \/ (Len(a) = 0 /\ size # 0)
    THEN {[status |-> "error", err |-> "ValueError", val |-> <<>>]}
    ELSE {[status |-> "ok", err |-> "", val |-> [k \in 1 .. size |-> a[p[k]]]] :
            p \in [1 .. size -> 1 .. Len(a)]}

\* What __sample_by_label returns or raises, given its draw c.
Sampled(x, y, c) ==
    IF c.status = "error"
    THEN [status |-> "error", err |-> c.err, x |-> <<>>, y |-> <<>>,
          idx |-> <<>>]
    ELSE [status |-> "ok", err |-> "",
          x   |-> [k \in 1 .. Len(c.val) |-> x[c.val[k] + 1]],
          y   |-> [k \in 1 .. Len(c.val) |-> y[c.val[k] + 1]],
          idx |-> c.val]

\* As __sample_by_label, without replace=False.
sample_by_label_replacing(x, y, label, ratio) ==
    LET indexes == flatnonzero_eq(y, label, 1)
        count   == IntTimes(Len(indexes), ratio)
    IN  { Sampled(x, y, c) : c \in choice_with_replacement(indexes, count) }

\* nbutils.__sample_by_label(x, y, label, ratio)
sample_by_label(x, y, label, ratio) ==
    LET indexes == flatnonzero_eq(y, label, 1)
        count   == IntTimes(Len(indexes), ratio)
    IN  { Sampled(x, y, c) : c \in choice_without_replacement(indexes, count) }

\* The loop of sample from the k-th item of target on, with the segments
\* appended so far in acc.
RECURSIVE sample_loop(_, _, _, _, _)
sample_loop(x, y, t, k, acc) ==
    IF k > Len(t)
    THEN {acc}
    ELSE UNION { IF s.status = "error"
                 THEN {[status |-> "error", err |-> s.err, new_x |-> <<>>,
                        new_y |-> <<>>, idx |-> <<>>]}
                 ELSE sample_loop(x, y, t, k + 1,
                        [acc EXCEPT !.new_x = @ \o s.x, !.new_y = @ \o s.y,
                                    !.idx = @ \o s.idx]) :
                   s \in sample_by_label(x, y, t[k].label, t[k].ratio) }

\* nbutils.sample(x, y, target): np.concatenate raises ValueError on an empty
\* list of arrays.
sample(x, y, t) ==
    IF Len(t) = 0
    THEN {[status |-> "error", err |-> "ValueError", new_x |-> <<>>,
           new_y |-> <<>>, idx |-> <<>>]}
    ELSE sample_loop(x, y, t, 1,
                     [status |-> "ok", err |-> "", new_x |-> <<>>,
                      new_y |-> <<>>, idx |-> <<>>])

InitSample ==
    /\ InitGan
    /\ \E k \in 0 .. MaxItems :
         /\ sx \in [1 .. k -> Items]
         /\ sy \in [1 .. k -> YLabels]
    /\ target \in Targets
    /\ sres = NoSample

\* The caller's sample(x, y, target).
Sample ==
    /\ sres.status = "none"
    /\ \E out \in sample(sx, sy, target) : sres' = out
    /\ UNCHANGED <<sx, sy, target>>
    /\ UNCHANGED ganVars

NextSample == Sample

SpecSample == InitSample /\ [][NextSample]_vars

---------------------------------------------------------------------------
(* Properties of GanUtils, under Spec *)

Returned == last.status = "ok"
Failed   == last.status = "error" /\ last.x = <<>> /\ last.y = <<>>

AllEqual(s, v) == \A k \in 1 .. Len(s) : s[k] = v

\* C1: when get_combined_dataset(n_fake, n_real) returns, it returns
\* n_real + (the generator's output count) samples and as many labels: first
\* n_real elements of the dataset labelled 1, then the generator's output in
\* its order labelled 0.  It returns whenever the counts are not negative,
\* the dataset can be drawn from and the generator returns.
CombinedRealThenFake ==
    last.op = "get_combined_dataset" =>
        LET n_fake == last.args[1]
            n_real == last.args[2]
            fake   == last.tr.genOut
        IN  /\ ( /\ n_fake >= 0
                 /\ n_real >= 0
                 /\ self.latent_length >= 0
                 /\ (self.dataset_size > 0 \/ n_real = 0)
                 /\ self.generator # "raising" ) => Returned
            /\ Returned =>
                 /\ Len(last.x) = n_real + Len(fake)
                 /\ Len(last.y) = n_real + Len(fake)
                 /\ \A k \in 1 .. n_real :
                      /\ last.x[k] \in Range(self.dataset)
                      /\ last.y[k] = 1
                 /\ \A k \in 1 .. Len(fake) :
                      /\ last.x[n_real + k] = fake[k]
                      /\ last.y[n_real + k] = 0

\* A combined batch with both segments, the fake one of another size than
\* asked.
CombinedRealThenFakeWitness ==
    /\ last.op = "get_combined_dataset"
    /\ Returned
    /\ last.args[2] = 2
    /\ last.args[1] = 1
    /\ Len(last.tr.genOut) = 2

\* C2: with batch_size > 0 and a generator that preserves the batch count,
\* get_equal_combined_dataset asks for n_fake = n_real = floor(batch_size/2)
\* and returns 2 * floor(batch_size / 2) samples: batch_size when even,
\* batch_size - 1 when odd.
EqualCombinedTruncates ==
    ( /\ last.op = "get_equal_combined_dataset"
      /\ self.batch_size > 0
      /\ PreservesCount(self.generator) ) =>
        LET half == self.batch_size \div 2
        IN  /\ last.tr.n_fake = half
            /\ last.tr.n_real = half
            /\ ( /\ self.latent_length >= 0
                 /\ (self.dataset_size > 0 \/ half = 0) ) => Returned
            /\ Returned =>
                 /\ Len(last.x) = 2 * half
                 /\ Len(last.y) = 2 * half
                 /\ self.batch_size % 2 = 0 => Len(last.x) = self.batch_size
                 /\ self.batch_size % 2 = 1 => Len(last.x) = self.batch_size - 1

\* An odd batch_size: 3 gives a batch of 2.
EqualCombinedTruncatesWitness ==
    /\ last.op = "get_equal_combined_dataset"
    /\ self.batch_size = 3
    /\ PreservesCount(self.generator)
    /\ Returned
    /\ Len(last.x) = 2

\* C3: for n > 0, get_fake_data(n) returns the generator's output as the
\* samples, with one label 0 per sample the generator returned, whether or
\* not that is n; the generator is called once.
FakeLabelsFollowOutput ==
    (last.op = "get_fake_data" /\ last.args[1] > 0) =>
        /\ (self.latent_length >= 0 /\ self.generator # "raising") => Returned
        /\ Returned =>
             /\ last.tr.calls = 1
             /\ Len(last.tr.genIn) = last.args[1]
             /\ last.x = last.tr.genOut
             /\ Len(last.y) = Len(last.tr.genOut)
             /\ AllEqual(last.y, 0)

\* A generator that returned another number of samples than asked.
FakeLabelsFollowOutputWitness ==
    /\ last.op = "get_fake_data"
    /\ last.args[1] > 0
    /\ Returned
    /\ Len(last.tr.genOut) # last.args[1]
    /\ Len(last.y) > 0

\* C4: for n > 0 and a non-empty dataset, get_sampled_data(n) returns n
\* samples, each dataset[i] for some 0 <= i < dataset_size, and n labels 1.
RealFromDataset ==
    ( /\ last.op = "get_sampled_data"
      /\ last.args[1] > 0
      /\ Len(self.dataset) > 0 ) =>
        /\ Returned
        /\ Len(last.x) = last.args[1]
        /\ \A k \in 1 .. Len(last.x) :
             \E i \in 0 .. self.dataset_size - 1 :
                last.x[k] = self.dataset[i + 1]
        /\ Len(last.y) = last.args[1]
        /\ AllEqual(last.y, 1)

\* More samples than the dataset holds: a repeat.
RealFromDatasetWitness ==
    /\ last.op = "get_sampled_data"
    /\ last.args[1] = 2
    /\ self.dataset_size = 1
    /\ Returned
    /\ last.x[1] = last.x[2]

\* What the constructor is specified to reject.
InvalidConfiguration(obj) ==
    \/ obj.latent_length <= 0
    \/ obj.batch_size <= 0
    \/ Len(obj.dataset) = 0

\* C5: constructing with latent_length <= 0, batch_size <= 0 or an empty
\* dataset fails with InvalidConfiguration and produces no instance.
ConstructionValidates ==
    (last.op = "__init__" /\ InvalidConfiguration(self)) =>
        /\ last.status = "error"
        /\ last.err = "InvalidConfiguration"
        /\ ~constructed

\* C6: on an instance the constructor is specified to accept,
\* get_latent_examples, get_latent_dataset, get_fake_data and
\* get_sampled_data fail, returning no batch, when given n <= 0.
NonPositiveCountRejected ==
    ( /\ last.op \in {"get_latent_examples", "get_latent_dataset",
                      "get_fake_data", "get_sampled_data"}
      /\ ~InvalidConfiguration(self)
      /\ last.args # None
      /\ last.args[1] <= 0 ) => Failed

\* C7: whatever calls were made, returning or raising, the attributes are
\* those the constructor set, and dataset_size is the dataset's length.
AttributesFrozen ==
    constructed =>
        /\ self = atConstruction
        /\ self.dataset_size = Len(self.dataset)

\* After a call that returned a batch of real samples.
AttributesFrozenWitness ==
    /\ constructed
    /\ last.op = "get_sampled_data"
    /\ Returned
    /\ Len(last.x) = 2
    /\ Len(self.dataset) = 2

\* C8: when the generator raises in get_fake_data, get_combined_dataset or
\* get_equal_combined_dataset, the call raises the generator's error: the
\* generator was called once, no real sample was drawn in its place and
\* nothing is returned.
GeneratorErrorPropagates ==
    ( /\ last.op \in {"get_fake_data", "get_combined_dataset",
                      "get_equal_combined_dataset"}
      /\ last.tr.genRaised ) =>
        /\ Failed
        /\ last.err = "GenerationError"
        /\ last.tr.calls = 1
        /\ last.tr.draws = 0

\* The generator raised in a combined call that asked for real samples too.
GeneratorErrorPropagatesWitness ==
    /\ last.op = "get_combined_dataset"
    /\ last.tr.genRaised
    /\ last.args[2] > 0
    /\ self.dataset_size > 0

\* C9: get_latent_dataset(n) returns n vectors of latent_length components
\* and n labels 1, with n = batch_size when n is omitted; it neither calls
\* the generator nor draws from the dataset.
LatentBatchShape ==
    last.op = "get_latent_dataset" =>
        LET n == IF last.args = None THEN self.batch_size ELSE last.args[1]
        IN  /\ (n >= 0 /\ self.latent_length >= 0) => Returned
            /\ last.tr.calls = 0
            /\ last.tr.draws = 0
            /\ Returned =>
                 /\ Len(last.x) = n
                 /\ \A k \in 1 .. Len(last.x) :
                      Len(last.x[k]) = self.latent_length
                 /\ Len(last.y) = n
                 /\ AllEqual(last.y, 1)

\* n omitted: batch_size vectors.
LatentBatchShapeWitness ==
    /\ last.op = "get_latent_dataset"
    /\ last.args = None
    /\ self.batch_size = 2
    /\ self.latent_length = 1
    /\ Returned
    /\ Len(last.x) = 2

---------------------------------------------------------------------------
(* Properties of sample, under SpecSample *)

Count(y, label) == Cardinality({ k \in 1 .. Len(y) : y[k] = label })

\* floor(count(y == label) * ratio) for the i-th item of target.
Share(i) ==
    (Count(sy, target[i].label) * target[i].ratio.num)
        \div target[i].ratio.den

\* Where the segment of the i-th item of target starts, less one.
RECURSIVE Offset(_)
Offset(i) == IF i <= 1 THEN 0 ELSE Offset(i - 1) + Share(i - 1)

\* The result is one segment per item of target, in order: Share(i) entries
\* of the input at distinct indexes, all of the item's label.
Segmented ==
    /\ sres.status = "ok"
    /\ Len(sres.new_x) = Offset(Len(target) + 1)
    /\ Len(sres.new_y) = Len(sres.new_x)
    /\ Len(sres.idx) = Len(sres.new_x)
    /\ \A i \in 1 .. Len(target) :
         \A k \in Offset(i) + 1 .. Offset(i) + Share(i) :
            sres.new_y[k] = target[i].label
    /\ \A k \in 1 .. Len(sres.idx) :
         /\ sres.idx[k] \in 0 .. Len(sx) - 1
         /\ sres.new_x[k] = sx[sres.idx[k] + 1]
         /\ sres.new_y[k] = sy[sres.idx[k] + 1]
    /\ \A j, k \in 1 .. Len(sres.idx) : sres.idx[j] = sres.idx[k] => j = k
    /\ \A k \in 1 .. Len(sres.new_y) :
         \E i \in 1 .. Len(target) : sres.new_y[k] = target[i].label

NothingSampled ==
    /\ sres.status = "error"
    /\ sres.new_x = <<>>
    /\ sres.new_y = <<>>

Above1(ratio) == ratio.num > ratio.den

\* C10 as stated: every target with ratios in [0, 1] gives the segmented
\* result, and a target with a ratio > 1 gives an error.
SampleAsStated ==
    sres.status # "none" =>
        IF \E i \in 1 .. Len(target) : Above1(target[i].ratio)
        THEN NothingSampled
        ELSE Segmented

\* C10, amended: a non-empty target in which no label is asked for more
\* entries than y holds of it (floor(count * ratio) <= count, which every
\* ratio <= 1 satisfies and a ratio > 1 may) gives the segmented result;
\* an empty target, or an item asking for more, gives an error.
SampleSegments ==
    sres.status # "none" =>
        IF /\ Len(target) > 0
           /\ \A i \in 1 .. Len(target) : Share(i) <= Count(sy, target[i].label)
        THEN Segmented
        ELSE NothingSampled

\* Two segments, one of a ratio above 1 that still asks for no more than
\* there is.
SampleSegmentsWitness ==
    /\ sres.status = "ok"
    /\ Len(target) = 2
    /\ Above1(target[1].ratio)
    /\ Share(1) = 1
    /\ Share(2) = 2
    /\ sx[sres.idx[2] + 1] = sx[sres.idx[3] + 1]

==========================================================================
